---- MODULE Spec2Model ----
(***************************************************************************)
(* Model of the MLOps tracking utilities of kaimani/ai-solutions-lab:      *)
(*   trackMetrics          (src/mlops-service/start.sh:74-135, the variant *)
(*                          with persistence, timeouts and refresh signal; *)
(*                          src/unnamed/part_000:32-55, the variant that   *)
(*                          only publishes),                               *)
(*   createAIMetrics       (src/mlops-service/lib/database.ts:34-53),      *)
(*   calculateTokenUsage   (start.sh:141-161, part_000:61-81),             *)
(*   estimateApiCost       (start.sh:167-175, part_000:87-95).             *)
(*                                                                         *)
(* An async function is modelled by its position (pc): one action per      *)
(* resumption, running from the settled await to the next await or to the  *)
(* end of the function.  External parties (module loader, store, HTTP      *)
(* endpoint, timers) choose the outcome of each await.                     *)
(***************************************************************************)
EXTENDS Integers, Sequences, FiniteSets, TLC

VARIABLES
    impl,         \* which trackMetrics runs: "start_sh" or "part_000"
    metricsData,  \* the argument of trackMetrics
    pc,           \* position of the invocation
    res,          \* outcome of each awaited step
    trackStatus,  \* response.status of the /track response (0: none yet)
    dbCalls,      \* arguments createAIMetrics was called with, in order
    store,        \* rows of ai_metrics inserted by createAIMetrics
    posts,        \* HTTP requests issued by fetch, in order
    log,          \* console output, in order
    completion,   \* state of the promise trackMetrics returned
    tokArgs,      \* arguments of calculateTokenUsage
    tokRet,       \* <<>> or <<its return value>>
    costArg,      \* argument of estimateApiCost
    costRet       \* <<>> or <<its return value>>

reporterVars == <<impl, metricsData, pc, res, trackStatus, dbCalls, store,
                  posts, log, completion>>
estimatorVars == <<tokArgs, tokRet, costArg, costRet>>
vars == <<impl, metricsData, pc, res, trackStatus, dbCalls, store, posts,
          log, completion, tokArgs, tokRet, costArg, costRet>>

(***************************************************************************)
(* MetricsData and AIMetrics                                               *)
(***************************************************************************)

\* The required properties of interface MetricsData.
RequiredKeys ==
    {"business_id", "session_id", "response_time_ms", "success_rate",
     "tokens_used", "api_cost_usd", "model_name", "intent_detected",
     "appointment_requested", "human_handoff_requested",
     "user_message_length", "ai_response_length", "response_type"}

\* The optional properties (declared with ?) of interface MetricsData.
OptionalKeys ==
    {"conversation_id", "user_satisfaction", "prompt_tokens",
     "completion_tokens", "appointment_booked"}

MetricsDataKeys == RequiredKeys \cup OptionalKeys

\* The declared type of each property of MetricsData.
FieldType(k) ==
    CASE k \in {"business_id", "conversation_id", "session_id", "model_name",
                "intent_detected", "response_type"} -> "string"
      [] k \in {"appointment_requested", "human_handoff_requested",
                "appointment_booked"} -> "boolean"
      [] OTHER -> "number"

\* The properties of Omit<AIMetrics, "id" | "created_at">.
AIMetricsInputKeys ==
    {"business_id", "conversation_id", "session_id", "response_time_ms",
     "success_rate", "tokens_used", "prompt_tokens", "completion_tokens",
     "api_cost_usd", "model_name", "intent_detected",
     "appointment_requested", "human_handoff_requested",
     "appointment_booked", "user_message_length", "ai_response_length",
     "response_type"}

\* An object is a function from its defined properties to their values; a
\* property that is absent or undefined is outside the domain.  Reading
\* obj.k gives <<>> for undefined and <<v>> for the value v.
Get(obj, k) == IF k \in DOMAIN obj THEN <<obj[k]>> ELSE <<>>

\* The records the caller may pass.  success_rate is in percent and
\* api_cost_usd in millionths of a dollar.
RequiredParts ==
    [business_id : {"biz-1"}, session_id : {"sess-1"},
     response_time_ms : {850}, success_rate : {100},
     tokens_used : {0, 216}, api_cost_usd : {40}, model_name : {"gemini"},
     intent_detected : {"booking"}, appointment_requested : BOOLEAN,
     human_handoff_requested : {FALSE}, user_message_length : {12},
     ai_response_length : {48}, response_type : {"text"}]

OptionalValue(k, b) ==
    CASE k = "conversation_id" -> "conv-1"
      [] k = "user_satisfaction" -> 4
      [] k = "prompt_tokens" -> 150
      [] k = "completion_tokens" -> 66
      [] k = "appointment_booked" -> b

OptionalParts ==
    {[k \in ks |-> OptionalValue(k, b)] : ks \in SUBSET OptionalKeys,
                                          b \in BOOLEAN}

Records == {req @@ opt : req \in RequiredParts, opt \in OptionalParts}


(***************************************************************************)
(* Helpers of trackMetrics                                                 *)
(***************************************************************************)

\* JSON.stringify of an object whose numbers are finite: one member per
\* defined property, tagged with its JSON type; undefined properties are
\* left out.
JsonStringify(obj) ==
    [k \in DOMAIN obj |-> [type |-> FieldType(k), value |-> obj[k]]]

\* The object a JSON text of JsonStringify denotes (JSON.parse).
JsonParse(json) == [k \in DOMAIN json |-> json[k].value]

\* The object literal with one property read from the wrong field of
\* metricsData (prompt_tokens: metricsData.completion_tokens).
CreateAIMetricsArgs_WrongField(md) ==
    [k \in {f \in AIMetricsInputKeys :
                Get(md, IF f = "prompt_tokens" THEN "completion_tokens"
                                               ELSE f) # <<>>} |->
        md[IF k = "prompt_tokens" THEN "completion_tokens" ELSE k]]

\* The object literal passed to createAIMetrics: the seventeen properties it
\* lists, each read from metricsData.
CreateAIMetricsArgs(md) ==
    [k \in {f \in AIMetricsInputKeys : Get(md, f) # <<>>} |-> md[k]]

\* The row INSERT ... RETURNING * stores: the interpolated values, with
\* appointment_booked || false, plus the id and created_at the store assigns.
\* A column whose value is undefined holds <<>>.
InsertedRow(metrics, id) ==
    [k \in AIMetricsInputKeys \cup {"id", "created_at"} |->
        CASE k = "id" -> <<id>>
          [] k = "created_at" -> <<"now">>
          [] k = "appointment_booked" ->
                IF Get(metrics, k) = <<TRUE>> THEN <<TRUE>> ELSE <<FALSE>>
          [] OTHER -> Get(metrics, k)]

TRACK_TIMEOUT_MS == 5000
REFRESH_TIMEOUT_MS == 3000

\* The signal option of the fetch of /track: AbortSignal.timeout(5000) in
\* start.sh, none in part_000.
TrackSignal(i) == IF i = "start_sh" THEN <<TRACK_TIMEOUT_MS>> ELSE <<>>

\* A check that lets every status through.
ResponseOk_Always(status) == TRUE

\* response.ok
ResponseOk(status) == status \in 200..299

\* fetch(`${mlopsServiceUrl}/track`, {method: 'POST', body:
\* JSON.stringify(metricsData), signal}): the request issued.
TrackRequest(md, i) ==
    [path |-> "/track", method |-> "POST", body |-> JsonStringify(md),
     signal |-> TrackSignal(i)]

\* fetch(`${mlopsServiceUrl}/refresh-metrics`, ...): the request issued.
RefreshRequest ==
    [path |-> "/refresh-metrics", method |-> "POST",
     body |-> [trigger |-> [type |-> "string", value |-> "new_metrics"]],
     signal |-> <<REFRESH_TIMEOUT_MS>>]

\* The statuses the monitoring endpoint answers with.
Statuses == {200, 204, 404, 500}

Steps == {"import", "persist", "track", "json", "refresh"}

\* An outer catch block that logs and rethrows.
CatchOuter_Rethrow(r, err) ==
    /\ res' = r
    /\ log' = Append(log, [level |-> "error",
                           msg |-> "Error tracking metrics:", error |-> err])
    /\ pc' = "done"
    /\ completion' = "rejected"

\* The outer catch block: console.error, then the function returns normally.
CatchOuter(r, err) ==
    /\ res' = r
    /\ log' = Append(log, [level |-> "error",
                           msg |-> "Error tracking metrics:", error |-> err])
    /\ pc' = "done"
    /\ completion' = "resolved"

\* The refresh fetch without its own try: the outer catch block handles it.
CatchRefresh_NoInnerTry(r, err) ==
    /\ res' = r
    /\ log' = Append(log, [level |-> "error",
                           msg |-> "Error tracking metrics:", error |-> err])
    /\ pc' = "done"
    /\ completion' = "resolved"

\* The inner catch block around the refresh fetch: console.log, then the
\* function returns normally.
CatchRefresh(r, err) ==
    /\ res' = r
    /\ log' = Append(log, [level |-> "log",
                           msg |-> "Metrics refresh skipped:", error |-> err])
    /\ pc' = "done"
    /\ completion' = "resolved"

\* await fetch(.../track): the request goes out and the function suspends.
StartTrack(r) ==
    /\ res' = [r EXCEPT !.track = "pending"]
    /\ posts' = Append(posts, TrackRequest(metricsData, impl))
    /\ pc' = "awaitTrack"

(***************************************************************************)
(* trackMetrics, one action per resumption                                 *)
(***************************************************************************)

\* The call: start.sh suspends on the dynamic import, part_000 on the fetch.
Invoke ==
    /\ pc = "idle"
    /\ completion' = "pending"
    /\ IF impl = "start_sh"
       THEN /\ res' = [res EXCEPT !.import = "pending"]
            /\ pc' = "awaitImport"
            /\ UNCHANGED posts
       ELSE StartTrack(res)
    /\ UNCHANGED <<impl, metricsData, trackStatus, dbCalls, store, log,
                   estimatorVars>>

\* createAIMetrics called without await: the fetch of /track starts while
\* the insert is still in flight.
ImportOk_NoAwait ==
    /\ pc = "awaitImport"
    /\ dbCalls' = Append(dbCalls, CreateAIMetricsArgs(metricsData))
    /\ res' = [res EXCEPT !.import = "ok", !.persist = "pending",
                          !.track = "pending"]
    /\ posts' = Append(posts, TrackRequest(metricsData, impl))
    /\ pc' = "awaitTrack"
    /\ UNCHANGED <<impl, metricsData, trackStatus, store, log, completion,
                   estimatorVars>>

\* import('@/lib/database') resolved: createAIMetrics is called and awaited.
ImportOk ==
    /\ pc = "awaitImport"
    /\ res' = [res EXCEPT !.import = "ok", !.persist = "pending"]
    /\ dbCalls' = Append(dbCalls, CreateAIMetricsArgs(metricsData))
    /\ pc' = "awaitPersist"
    /\ UNCHANGED <<impl, metricsData, trackStatus, store, posts, log,
                   completion, estimatorVars>>

\* import('@/lib/database') rejected.
ImportFail ==
    /\ pc = "awaitImport"
    /\ CatchOuter([res EXCEPT !.import = "reject"], "import")
    /\ UNCHANGED <<impl, metricsData, trackStatus, dbCalls, store, posts,
                   estimatorVars>>

\* createAIMetrics resolved (the row is stored): the fetch of /track starts.
PersistOk ==
    /\ pc = "awaitPersist"
    /\ store' = Append(store, InsertedRow(dbCalls[Len(dbCalls)],
                                           Len(store) + 1))
    /\ StartTrack([res EXCEPT !.persist = "ok"])
    /\ UNCHANGED <<impl, metricsData, trackStatus, dbCalls, log, completion,
                   estimatorVars>>

\* createAIMetrics rejected (connectivity, constraint, timeout of the store).
PersistFail ==
    /\ pc = "awaitPersist"
    /\ CatchOuter([res EXCEPT !.persist = "reject"], "database")
    /\ UNCHANGED <<impl, metricsData, trackStatus, dbCalls, store, posts,
                   estimatorVars>>

\* The fetch of /track resolved with a response of the given status.
TrackResponse(status) ==
    /\ pc = "awaitTrack"
    /\ trackStatus' = status
    /\ IF ResponseOk(status)
       THEN /\ res' = [res EXCEPT !.track = "ok", !.json = "pending"]
            /\ pc' = "awaitJson"
            /\ UNCHANGED <<log, completion>>
       ELSE CatchOuter([res EXCEPT !.track = "non2xx"], "status")
    /\ UNCHANGED <<impl, metricsData, dbCalls, store, posts, estimatorVars>>

\* The signal of the fetch of /track aborted it after its timeout.
TrackTimeout ==
    /\ pc = "awaitTrack"
    /\ posts[Len(posts)].signal # <<>>
    /\ CatchOuter([res EXCEPT !.track = "timeout"], "TimeoutError")
    /\ UNCHANGED <<impl, metricsData, trackStatus, dbCalls, store, posts,
                   estimatorVars>>

\* The fetch of /track rejected with a network error.
TrackReject ==
    /\ pc = "awaitTrack"
    /\ CatchOuter([res EXCEPT !.track = "reject"], "TypeError")
    /\ UNCHANGED <<impl, metricsData, trackStatus, dbCalls, store, posts,
                   estimatorVars>>

\* await fetch(.../refresh-metrics) inside the inner try.
StartRefresh(r) ==
    /\ res' = [r EXCEPT !.refresh = "pending"]
    /\ posts' = Append(posts, RefreshRequest)
    /\ pc' = "awaitRefresh"
    /\ UNCHANGED completion

\* response.json() resolved: the success is logged; start.sh goes on to the
\* refresh signal, part_000 returns.
JsonOk ==
    /\ pc = "awaitJson"
    /\ log' = Append(log, [level |-> "log",
                           msg |-> "Metrics tracked successfully:",
                           error |-> "none"])
    /\ IF impl = "start_sh"
       THEN StartRefresh([res EXCEPT !.json = "ok"])
       ELSE /\ res' = [res EXCEPT !.json = "ok"]
            /\ pc' = "done"
            /\ completion' = "resolved"
            /\ UNCHANGED posts
    /\ UNCHANGED <<impl, metricsData, trackStatus, dbCalls, store,
                   estimatorVars>>

\* A body that cannot be read is ignored and the refresh signal still sent.
JsonFail_Ignored ==
    /\ pc = "awaitJson"
    /\ StartRefresh([res EXCEPT !.json = "reject"])
    /\ UNCHANGED <<impl, metricsData, trackStatus, dbCalls, store, log,
                   estimatorVars>>

\* response.json() rejected: the body is not JSON, or the connection broke.
JsonFail ==
    /\ pc = "awaitJson"
    /\ CatchOuter([res EXCEPT !.json = "reject"], "SyntaxError")
    /\ UNCHANGED <<impl, metricsData, trackStatus, dbCalls, store, posts,
                   estimatorVars>>

\* The signal of the fetch of /track aborted the reading of the body.
JsonTimeout ==
    /\ pc = "awaitJson"
    /\ posts[Len(posts)].signal # <<>>
    /\ CatchOuter([res EXCEPT !.json = "timeout"], "TimeoutError")
    /\ UNCHANGED <<impl, metricsData, trackStatus, dbCalls, store, posts,
                   estimatorVars>>

\* The fetch of /refresh-metrics resolved; its status is not looked at.
RefreshResponse(status) ==
    /\ pc = "awaitRefresh"
    /\ res' = [res EXCEPT !.refresh = "ok"]
    /\ pc' = "done"
    /\ completion' = "resolved"
    /\ UNCHANGED <<impl, metricsData, trackStatus, dbCalls, store, posts,
                   log, estimatorVars>>

\* The signal of the fetch of /refresh-metrics aborted it after its timeout.
RefreshTimeout ==
    /\ pc = "awaitRefresh"
    /\ posts[Len(posts)].signal # <<>>
    /\ CatchRefresh([res EXCEPT !.refresh = "timeout"], "TimeoutError")
    /\ UNCHANGED <<impl, metricsData, trackStatus, dbCalls, store, posts,
                   estimatorVars>>

\* The fetch of /refresh-metrics rejected with a network error.
RefreshReject ==
    /\ pc = "awaitRefresh"
    /\ CatchRefresh([res EXCEPT !.refresh = "reject"], "TypeError")
    /\ UNCHANGED <<impl, metricsData, trackStatus, dbCalls, store, posts,
                   estimatorVars>>

(***************************************************************************)
(* Numbers.  A JavaScript Number is an IEEE 754 double.  A non-negative    *)
(* finite double is modelled exactly, as [m, e] with value m * 2^e, where  *)
(* m is a natural number of exactly 53 bits (its top bit set); zero is     *)
(* [m |-> <<>>, e |-> 0].  The magnitudes that occur are far from the      *)
(* overflow and subnormal ranges, so the exponent is left unbounded.       *)
(*                                                                         *)
(* A natural number of any size is the sequence of its base-1024 digits,   *)
(* least significant first, without leading zero digits; zero is <<>>.     *)
(***************************************************************************)

DOUBLE_PRECISION == 53

RECURSIVE Pow2(_)
Pow2(k) == IF k = 0 THEN 1 ELSE 2 * Pow2(k - 1)

RECURSIVE NatOfInt(_)
NatOfInt(k) == IF k = 0 THEN <<>> ELSE <<k % 1024>> \o NatOfInt(k \div 1024)

RECURSIVE IntOfNat(_)
IntOfNat(n) == IF n = <<>> THEN 0 ELSE Head(n) + 1024 * IntOfNat(Tail(n))

\* n without its leading zero digits.
Trim(n) ==
    LET nz == {i \in DOMAIN n : n[i] # 0}
    IN  IF nz = {} THEN <<>>
        ELSE SubSeq(n, 1, CHOOSE i \in nz : \A j \in nz : j <= i)

Digit(n, i) == IF i >= 1 /\ i <= Len(n) THEN n[i] ELSE 0

\* The bit of weight 2^i of n.
Bit(n, i) == (Digit(n, i \div 10 + 1) \div Pow2(i % 10)) % 2

\* The number of bits of n.
BitLen(n) ==
    IF n = <<>> THEN 0
    ELSE 10 * (Len(n) - 1)
            + (CHOOSE k \in 1..10 : /\ n[Len(n)] < Pow2(k)
                                    /\ n[Len(n)] >= Pow2(k - 1))

\* floor(n / 2^k)
ShiftRight(n, k) ==
    LET q == k \div 10
        j == k % 10
    IN  IF Len(n) <= q THEN <<>>
        ELSE Trim([i \in 1..(Len(n) - q) |->
                     Digit(n, i + q) \div Pow2(j)
                        + (Digit(n, i + q + 1) % Pow2(j)) * Pow2(10 - j)])

\* n * 2^k
ShiftLeft(n, k) ==
    LET q == k \div 10
        j == k % 10
    IN  IF n = <<>> THEN <<>>
        ELSE Trim([i \in 1..(Len(n) + q + 1) |->
                     ((Digit(n, i - q) * Pow2(j)) % 1024)
                        + (Digit(n, i - q - 1) \div Pow2(10 - j))])

\* a + b + c, c a carry of 0 or 1.
RECURSIVE AddNat(_, _, _)
AddNat(a, b, c) ==
    IF a = <<>> /\ b = <<>>
    THEN IF c = 0 THEN <<>> ELSE <<c>>
    ELSE LET sum == Digit(a, 1) + Digit(b, 1) + c
         IN  <<sum % 1024>>
                \o AddNat(IF a = <<>> THEN <<>> ELSE Tail(a),
                          IF b = <<>> THEN <<>> ELSE Tail(b), sum \div 1024)

\* n * d + carry for one digit d, the digits of the product (untrimmed).
RECURSIVE MulDigit(_, _, _)
MulDigit(n, d, carry) ==
    IF n = <<>>
    THEN IF carry = 0 THEN <<>> ELSE <<carry>>
    ELSE <<(Head(n) * d + carry) % 1024>>
            \o MulDigit(Tail(n), d, (Head(n) * d + carry) \div 1024)

\* n * 1024
TimesBase(n) == IF n = <<>> THEN <<>> ELSE <<0>> \o n

\* a * b
RECURSIVE MulNat(_, _)
MulNat(a, b) ==
    IF a = <<>> \/ b = <<>> THEN <<>>
    ELSE AddNat(Trim(MulDigit(b, Head(a), 0)),
                TimesBase(MulNat(Tail(a), b)), 0)

DoubleZero == [m |-> <<>>, e |-> 0]

\* Round to nearest, ties to even: the double nearest to n * 2^e + r, where
\* 0 <= r < 2^e and r > 0 exactly when sticky.
RoundToDouble(n, e, sticky) ==
    LET d == BitLen(n) - DOUBLE_PRECISION
    IN  IF n = <<>> THEN DoubleZero
        ELSE IF d <= 0 THEN [m |-> ShiftLeft(n, -d), e |-> e + d]
        ELSE LET kept == ShiftRight(n, d)
                 low == sticky \/ \E i \in 0..(d - 2) : Bit(n, i) = 1
                 up == Bit(n, d - 1) = 1 /\ (low \/ Bit(kept, 0) = 1)
                 r == IF up THEN AddNat(kept, <<1>>, 0) ELSE kept
             IN  IF BitLen(r) > DOUBLE_PRECISION
                 THEN [m |-> ShiftRight(r, 1), e |-> e + d + 1]
                 ELSE [m |-> r, e |-> e + d]

\* The quotient r / b, 0 <= r < b, continued ten bits at a time after the
\* digits acc (most significant first) until it is exact or has a bit past
\* the precision; e is the weight of the last digit of acc.
RECURSIVE QuotientDigits(_, _, _, _)
QuotientDigits(r, b, acc, e) ==
    IF r = 0 \/ BitLen([i \in 1..Len(acc) |-> acc[Len(acc) + 1 - i]])
                    > DOUBLE_PRECISION
    THEN [n |-> [i \in 1..Len(acc) |-> acc[Len(acc) + 1 - i]], e |-> e,
          sticky |-> r # 0]
    ELSE QuotientDigits((r * 1024) % b, b,
                        IF acc = <<>> /\ (r * 1024) \div b = 0
                        THEN <<>> ELSE Append(acc, (r * 1024) \div b),
                        e - 10)

\* The Number of an integer below 2^31 (exact).
FromInt(k) == RoundToDouble(NatOfInt(k), 0, FALSE)

\* a / b for integer-valued Numbers 0 <= a < 2^31 and 0 < b < 2^20: the
\* correctly rounded quotient.
DivInt(a, b) ==
    LET hi == NatOfInt(a \div b)
        q == QuotientDigits(a % b, b,
                            [i \in 1..Len(hi) |-> hi[Len(hi) + 1 - i]], 0)
    IN  RoundToDouble(q.n, q.e, q.sticky)

\* x * y: the correctly rounded product.
Mul(x, y) == RoundToDouble(MulNat(x.m, y.m), x.e + y.e, FALSE)

\* Math.floor on 0 <= x < 2^31: the integer part.
MathFloor(x) == IntOfNat(ShiftRight(x.m, -x.e))

\* Math.ceil on 0 <= x < 2^31: one more than the integer part when a bit of
\* the fraction is set.
MathCeil(x) ==
    MathFloor(x) + (IF \E i \in 0..(-x.e - 1) : Bit(x.m, i) = 1 THEN 1 ELSE 0)

\* Math.round on 0 <= x < 2^31: the nearest integer, a tie going up.  The
\* fraction is at least one half exactly when the bit of weight 1/2 is set.
MathRound(x) ==
    MathFloor(x) + (IF x.e < 0 THEN Bit(x.m, -x.e - 1) ELSE 0)

(***************************************************************************)
(* calculateTokenUsage and estimateApiCost                                 *)
(***************************************************************************)

CHARS_PER_TOKEN == 4
ONE_MILLION == 1000000

\* The literal 0.1875.
COST_PER_MILLION_TOKENS == DivInt(1875, 10000)

\* A total taken as the ceiling of the combined length.
TokenUsage_CombinedCeiling(systemPrompt, userMessage, aiResponse) ==
    [totalTokens |->
        MathCeil(DivInt(Len(systemPrompt) + Len(userMessage)
                            + Len(aiResponse), CHARS_PER_TOKEN)),
     systemTokens |-> MathCeil(DivInt(Len(systemPrompt), CHARS_PER_TOKEN)),
     userTokens |-> MathCeil(DivInt(Len(userMessage), CHARS_PER_TOKEN)),
     responseTokens |-> MathCeil(DivInt(Len(aiResponse), CHARS_PER_TOKEN))]

\* calculateTokenUsage: a string is the sequence of its UTF-16 code units,
\* and .length its length.
TokenUsage(systemPrompt, userMessage, aiResponse) ==
    LET systemTokens == MathCeil(DivInt(Len(systemPrompt), CHARS_PER_TOKEN))
        userTokens == MathCeil(DivInt(Len(userMessage), CHARS_PER_TOKEN))
        responseTokens == MathCeil(DivInt(Len(aiResponse), CHARS_PER_TOKEN))
    IN  [totalTokens |-> systemTokens + userTokens + responseTokens,
         systemTokens |-> systemTokens,
         userTokens |-> userTokens,
         responseTokens |-> responseTokens]

\* estimateApiCost that truncates instead of rounding.
ApiCost_Truncated(totalTokens) ==
    LET costUsd == Mul(DivInt(totalTokens, ONE_MILLION),
                       COST_PER_MILLION_TOKENS)
    IN  DivInt(MathFloor(Mul(costUsd, FromInt(ONE_MILLION))), ONE_MILLION)

\* estimateApiCost.
ApiCost(totalTokens) ==
    LET costUsd == Mul(DivInt(totalTokens, ONE_MILLION),
                       COST_PER_MILLION_TOKENS)
    IN  DivInt(MathRound(Mul(costUsd, FromInt(ONE_MILLION))), ONE_MILLION)

\* A call of calculateTokenUsage.
CalculateTokenUsage ==
    /\ tokRet = <<>>
    /\ tokRet' = <<TokenUsage(tokArgs[1], tokArgs[2], tokArgs[3])>>
    /\ UNCHANGED <<reporterVars, tokArgs, costArg, costRet>>

\* A call of estimateApiCost.
EstimateApiCost ==
    /\ costRet = <<>>
    /\ costRet' = <<ApiCost(costArg)>>
    /\ UNCHANGED <<reporterVars, tokArgs, tokRet, costArg>>

MaxStrLen == 9
MaxTokens == 260

\* The strings of at most MaxStrLen code units (one code unit value: only
\* the length is read).
Strings == UNION {[1..n -> {"x"}] : n \in 0..MaxStrLen}

TokenCounts == 0..MaxTokens \cup {ONE_MILLION}

(***************************************************************************)
(* Specifications                                                          *)
(***************************************************************************)

EstimatorsIdle ==
    /\ tokArgs = <<<<>>, <<>>, <<>>>>
    /\ tokRet = <<>>
    /\ costArg = 0
    /\ costRet = <<>>

ReporterInit ==
    /\ impl \in {"start_sh", "part_000"}
    /\ metricsData \in Records
    /\ pc = "idle"
    /\ res = [s \in Steps |-> "none"]
    /\ trackStatus = 0
    /\ dbCalls = <<>>
    /\ store = <<>>
    /\ posts = <<>>
    /\ log = <<>>
    /\ completion = "none"

Init == ReporterInit /\ EstimatorsIdle

Next ==
    \/ Invoke
    \/ ImportOk
    \/ ImportFail
    \/ PersistOk
    \/ PersistFail
    \/ \E status \in Statuses : TrackResponse(status)
    \/ TrackTimeout
    \/ TrackReject
    \/ JsonOk
    \/ JsonFail
    \/ JsonTimeout
    \/ \E status \in Statuses : RefreshResponse(status)
    \/ RefreshTimeout
    \/ RefreshReject

Spec == Init /\ [][Next]_vars

\* The scheduling the runtime guarantees: a started invocation runs, the
\* module loader and the store settle their promises, and an armed
\* AbortSignal.timeout fires unless the call settles first.  Nothing makes the
\* monitoring endpoint answer.
FairSpec ==
    /\ Init
    /\ [][Next]_vars
    /\ WF_vars(Invoke)
    /\ WF_vars(ImportOk \/ ImportFail)
    /\ WF_vars(PersistOk \/ PersistFail)
    /\ WF_vars(TrackTimeout)
    /\ WF_vars(JsonTimeout)
    /\ WF_vars(RefreshTimeout)

(***************************************************************************)
(* Properties of trackMetrics                                              *)
(***************************************************************************)

Posted(path) == {i \in DOMAIN posts : posts[i].path = path}

LastLog == log[Len(log)]

\* C1: whatever the outcome of the import, the persistence call, the /track
\* POST, the reading of its body and the /refresh-metrics POST, the promise
\* trackMetrics returned is never rejected, and an invocation that has ended
\* has ended with the promise resolved.
C1_NeverThrows ==
    /\ completion # "rejected"
    /\ (pc = "done") <=> (completion = "resolved")

\* An invocation over in which a step failed.
C1_Witness ==
    /\ pc = "done"
    /\ completion = "resolved"
    /\ res.track = "non2xx"

\* C2: an invocation in which the dynamic import or createAIMetrics failed
\* has still posted to /track by the time it ends.
C2_PublishAfterPersistFailure ==
    (pc = "done" /\ (res.import = "reject" \/ res.persist = "reject"))
        => Posted("/track") # {}

\* C3: a POST to /refresh-metrics is issued only after the POST to /track of
\* the same invocation completed with a 2xx status; when the publish step
\* failed (non-2xx, timeout, network error) no refresh POST is ever issued.
C3_RefreshOnlyAfterPublish ==
    /\ \A i \in Posted("/refresh-metrics") :
          /\ \E j \in Posted("/track") : j < i
          /\ res.track = "ok"
          /\ trackStatus >= 200 /\ trackStatus <= 299
    /\ res.track \in {"non2xx", "timeout", "reject"}
          => Posted("/refresh-metrics") = {}

\* A refresh signal sent after a 204 from /track.
C3_Witness ==
    /\ Posted("/refresh-metrics") # {}
    /\ trackStatus = 204

\* C4: the steps of one invocation run one after the other: at most one of
\* them is in flight at any time, the /track POST is issued only once the
\* persistence call has finished, and the /refresh-metrics POST only once the
\* /track POST and the reading of its body have finished.
C4_Sequential ==
    /\ Cardinality({s \in Steps : res[s] = "pending"}) <= 1
    /\ res.track # "none" =>
          /\ res.persist # "pending"
          /\ impl = "start_sh" => res.import = "ok" /\ res.persist = "ok"
    /\ res.refresh # "none" => res.track = "ok" /\ res.json = "ok"
    /\ \A i \in Posted("/refresh-metrics") :
          \A j \in Posted("/track") : j < i

\* The /track POST in flight after the persistence call resolved.
C4_Witness ==
    /\ res.persist = "ok"
    /\ res.track = "pending"
    /\ Len(store) = 1

\* C7: every invocation that has started eventually ends.
C7_EventuallyCompletes == (pc # "idle") ~> (pc = "done")

\* C8: a refresh step that fails (timeout or network error) leaves the
\* earlier steps as they were: the row stays stored, no call to the store or
\* to /track is repeated, the publish stays successful and is not reported as
\* an error, and the invocation ends normally.
C8_RefreshFailureFrame ==
    [][(pc = "awaitRefresh" /\ res'.refresh \in {"timeout", "reject"}) =>
          /\ store' = store /\ Len(store') = 1
          /\ dbCalls' = dbCalls
          /\ posts' = posts
          /\ res'.persist = "ok" /\ res'.track = "ok" /\ res'.json = "ok"
          /\ trackStatus' = trackStatus
          /\ pc' = "done"
          /\ completion' = "resolved"
          /\ log'[Len(log')].level = "log"]_vars

\* An invocation over whose refresh signal timed out.
C8_Witness ==
    /\ pc = "done"
    /\ res.refresh = "timeout"
    /\ Len(store) = 1
    /\ Cardinality(Posted("/track")) = 1

\* C9 as stated: the body posted to /track denotes the input record, and
\* createAIMetrics receives every property of the input record with the
\* value it has there.
C9_AllFieldsPersisted ==
    /\ \A i \in Posted("/track") : JsonParse(posts[i].body) = metricsData
    /\ \A i \in DOMAIN dbCalls :
          \A k \in MetricsDataKeys : Get(dbCalls[i], k) = Get(metricsData, k)

C9_State ==
    /\ \A i \in Posted("/track") : JsonParse(posts[i].body) = metricsData
    /\ \A i \in DOMAIN dbCalls :
          /\ \A k \in MetricsDataKeys \ {"user_satisfaction"} :
                Get(dbCalls[i], k) = Get(metricsData, k)
          /\ "user_satisfaction" \notin DOMAIN dbCalls[i]

\* C9 amended: no step changes the record; the body posted to /track denotes
\* the input record; createAIMetrics receives every property of the input
\* record except user_satisfaction, each with the value it has there.
C9_AllButSatisfactionPersisted ==
    /\ []C9_State
    /\ [][metricsData' = metricsData]_vars

\* A record with a user_satisfaction, handed to the store and posted.
C9_Witness ==
    /\ "user_satisfaction" \in DOMAIN metricsData
    /\ "appointment_booked" \in DOMAIN metricsData
    /\ Len(dbCalls) = 1
    /\ Posted("/track") # {}

\* C10: a /track response with a 2xx status whose body cannot be read ends
\* the invocation like a failed publish: the outer handler logs the error, no
\* refresh POST is issued and the promise resolves; so a refresh POST implies
\* a 2xx status and a body that was read.
C10_BodyFailureIsPublishFailure ==
    /\ res.json \in {"reject", "timeout"} =>
          /\ pc = "done"
          /\ completion = "resolved"
          /\ Posted("/refresh-metrics") = {}
          /\ LastLog.level = "error"
          /\ LastLog.msg = "Error tracking metrics:"
    /\ Posted("/refresh-metrics") # {} =>
          /\ trackStatus >= 200 /\ trackStatus <= 299
          /\ res.json = "ok"

\* A 200 whose body is not JSON.
C10_Witness ==
    /\ trackStatus = 200
    /\ res.json = "reject"
    /\ pc = "done"

(***************************************************************************)
(* Specifications of the two estimators, each called once on an argument   *)
(* drawn from a bounded set, with no invocation of trackMetrics running.   *)
(***************************************************************************)

ReporterIdle ==
    /\ impl = "start_sh"
    /\ metricsData = CHOOSE r \in Records : DOMAIN r = RequiredKeys
    /\ pc = "idle"
    /\ res = [s \in Steps |-> "none"]
    /\ trackStatus = 0
    /\ dbCalls = <<>>
    /\ store = <<>>
    /\ posts = <<>>
    /\ log = <<>>
    /\ completion = "none"

TokenInit ==
    /\ ReporterIdle
    /\ tokArgs \in Strings \X Strings \X Strings
    /\ tokRet = <<>>
    /\ costArg = 0
    /\ costRet = <<>>

TokenNext == CalculateTokenUsage

TokenSpec == TokenInit /\ [][TokenNext]_vars

CostInit ==
    /\ ReporterIdle
    /\ tokArgs = <<<<>>, <<>>, <<>>>>
    /\ tokRet = <<>>
    /\ costArg \in TokenCounts
    /\ costRet = <<>>

CostNext == EstimateApiCost

CostSpec == CostInit /\ [][CostNext]_vars

(***************************************************************************)
(* Properties of the estimators                                            *)
(***************************************************************************)

\* v is the ceiling of n / 4, in integer arithmetic.
IsCeilingOfQuarter(v, n) == 4 * v >= n /\ 4 * (v - 1) < n

\* C5: the token estimate of each segment is the ceiling of a quarter of its
\* length, and the total is the sum of the three segment estimates; an empty
\* segment counts 0, so three empty strings give four zeros.
C5_SegmentwiseCeiling ==
    tokRet # <<>> =>
        LET usage == tokRet[1]
        IN  /\ IsCeilingOfQuarter(usage.systemTokens, Len(tokArgs[1]))
            /\ IsCeilingOfQuarter(usage.userTokens, Len(tokArgs[2]))
            /\ IsCeilingOfQuarter(usage.responseTokens, Len(tokArgs[3]))
            /\ usage.totalTokens = usage.systemTokens + usage.userTokens
                                        + usage.responseTokens
            /\ tokArgs = <<<<>>, <<>>, <<>>>> =>
                  usage = [totalTokens |-> 0, systemTokens |-> 0,
                           userTokens |-> 0, responseTokens |-> 0]

\* Lengths 5, 1 and 1: the total is 2 + 1 + 1 = 4, the ceiling of 7 / 4 is 2.
C5_Witness ==
    /\ Len(tokArgs[1]) = 5 /\ Len(tokArgs[2]) = 1 /\ Len(tokArgs[3]) = 1
    /\ tokRet # <<>>
    /\ tokRet[1].totalTokens = 4
    /\ tokRet[1].systemTokens = 2

\* C6 as stated: in millionths of a dollar the cost of t tokens is the
\* integer nearest to 3t/16, an exact half going up as Math.round takes it;
\* the cost of 0 tokens is 0 and the cost of 1,000,000 tokens is 0.1875.
C6_TiesGoUp ==
    costRet # <<>> =>
        /\ costRet[1] = DivInt((3 * costArg + 8) \div 16, ONE_MILLION)
        /\ costArg = 0 => costRet[1] = DoubleZero
        /\ costArg = ONE_MILLION => costRet[1] = COST_PER_MILLION_TOKENS

\* C6 amended: in millionths of a dollar the cost of t tokens is an integer
\* nearest to 3t/16, and at an exact half (t mod 16 = 8) it is either of the
\* two nearest integers; the cost of 0 tokens is 0 and the cost of 1,000,000
\* tokens is 0.1875; the cost is never negative.
C6_NearestMillionth ==
    costRet # <<>> =>
        /\ \E k \in {(3 * costArg) \div 16, (3 * costArg) \div 16 + 1} :
              /\ 16 * k - 3 * costArg \in -8..8
              /\ costRet[1] = DivInt(k, ONE_MILLION)
        /\ costArg = 0 => costRet[1] = DoubleZero
        /\ costArg = ONE_MILLION => costRet[1] = COST_PER_MILLION_TOKENS

\* 216 tokens: 3 * 216 / 16 = 40.5, and the cost is 0.000040.
C6_Witness ==
    /\ costArg = 216
    /\ costRet = <<DivInt(40, ONE_MILLION)>>

====
